---- MODULE Spec2Model ----
(***************************************************************************)
(* Stock Variance Dashboard (variance.py).                                 *)
(*                                                                         *)
(* The script is a Streamlit page: it is run top to bottom once when the   *)
(* page is opened and once more after every change of the category         *)
(* selector.  A run loads the spreadsheet (cached), filters it by the      *)
(* selected category, sums six columns, computes the stock variance        *)
(* percentage, ranks the rows twice (top 30 by |Diff Stock|, top 30 by     *)
(* Diff Value) and lists the rows that are in neither ranking.             *)
(*                                                                         *)
(* A cell is <<>> when it is missing (NaN) and <<v>> when it holds v.      *)
(* A table is [columns |-> set of names, rows |-> sequence of rows], a row *)
(* is [idx |-> index label, cells |-> [column name -> cell]].              *)
(***************************************************************************)
EXTENDS Integers, Sequences, FiniteSets, TLC

\* head(30) of both rankings
TopN == 30

\* Bounds of the input files that are explored.
MaxSmall == 2
MaxExtra == 2

NaN == <<>>
All == <<"All">>

IsNa(c) == c = NaN

---------------------------------------------------------------------------
(* Input files *)

\* Row counts: short files, and files around the 30-row cut-off.
Lengths == (0..MaxSmall) \cup (TopN..(TopN + MaxExtra))

\* Each column of a file alternates between two cells (odd rows, even rows).
CategoryPatterns ==
    {<< <<"A">>, <<"A">> >>, << <<"A">>, <<"B">> >>, << NaN, <<"B">> >>,
     << <<"All">>, <<"A">> >>}
BookPatterns == {<< <<5>>, <<5>> >>, << <<0>>, <<0>> >>, << <<5>>, <<0>> >>}
PhysPatterns == {<< <<4>>, <<6>> >>, << <<6>>, <<4>> >>, << <<4>>, NaN >>, << <<6>>, <<6>> >>}
CostPatterns == {<< <<10>>, <<20>> >>, << <<10>>, <<10>> >>}
DiffPatterns == {<< <<2>>, NaN >>, << <<-3>>, <<1>> >>}

\* Headers under which a file may carry its own stock difference column.
DiffHeaders == {"Diff Stock", " Diff Stock "}

BaseColumns == {"Category", "Book Stock", "Phys Stock", "Cost Price"}

Alt(p, i) == IF i % 2 = 1 THEN p[1] ELSE p[2]

FileWithout(n, cat, book, phys, cost) ==
    [columns |-> BaseColumns,
     rows |-> [i \in 1..n |->
        [c \in BaseColumns |->
            CASE c = "Category" -> Alt(cat, i)
              [] c = "Book Stock" -> Alt(book, i)
              [] c = "Phys Stock" -> Alt(phys, i)
              [] OTHER -> Alt(cost, i)]]]

FileWith(n, cat, book, phys, cost, hdr, diff) ==
    [columns |-> BaseColumns \cup {hdr},
     rows |-> [i \in 1..n |->
        [c \in BaseColumns \cup {hdr} |->
            CASE c = "Category" -> Alt(cat, i)
              [] c = "Book Stock" -> Alt(book, i)
              [] c = "Phys Stock" -> Alt(phys, i)
              [] c = "Cost Price" -> Alt(cost, i)
              [] OTHER -> Alt(diff, i)]]]

Files ==
    {FileWithout(n, cat, book, phys, cost) :
        n \in Lengths, cat \in CategoryPatterns, book \in BookPatterns,
        phys \in PhysPatterns, cost \in CostPatterns}
    \cup
    {FileWith(n, cat, book, phys, cost, hdr, diff) :
        n \in Lengths, cat \in CategoryPatterns, book \in BookPatterns,
        phys \in PhysPatterns, cost \in CostPatterns,
        hdr \in DiffHeaders, diff \in DiffPatterns}

---------------------------------------------------------------------------
(* Cell arithmetic (pandas: a missing operand gives a missing result) *)

Sub(a, b) == IF IsNa(a) \/ IsNa(b) THEN NaN ELSE <<a[1] - b[1]>>

Mul(a, b) == IF IsNa(a) \/ IsNa(b) THEN NaN ELSE <<a[1] * b[1]>>

AbsCell(a) == IF IsNa(a) THEN NaN ELSE IF a[1] < 0 THEN <<0 - a[1]>> ELSE a

\* Python ==: a missing value equals nothing, itself included.
PyEq(a, b) == ~IsNa(a) /\ ~IsNa(b) /\ a = b

---------------------------------------------------------------------------
(* Table primitives *)

EmptyTable == [columns |-> {}, rows |-> <<>>]

Strip(name) == IF name = " Diff Stock " THEN "Diff Stock" ELSE name

\* The sequence f[1], ..., f[n]
Rows(f, n) == SubSeq(f, 1, n)

\* pd.read_excel: the rows of the sheet under a RangeIndex 0..n-1.
ReadExcel(f) ==
    [columns |-> f.columns,
     rows |-> Rows([i \in 1..Len(f.rows) |-> [idx |-> i - 1, cells |-> f.rows[i]]],
              Len(f.rows))]

\* A row's cells with the column names stripped.
StripCells(cells) ==
    [c \in {Strip(k) : k \in DOMAIN cells} |->
        cells[CHOOSE k \in DOMAIN cells : Strip(k) = c]]

\* df.columns = df.columns.str.strip()
StripColumns(t) ==
    [columns |-> {Strip(c) : c \in t.columns},
     rows |-> Rows([i \in 1..Len(t.rows) |->
                [idx |-> t.rows[i].idx, cells |-> StripCells(t.rows[i].cells)]],
              Len(t.rows))]

\* df[name] = col, a column given by its cell for every row position
SetColumn(t, name, col) ==
    [columns |-> t.columns \cup {name},
     rows |-> Rows([i \in 1..Len(t.rows) |->
                [idx |-> t.rows[i].idx,
                 cells |-> (name :> col[i]) @@ t.rows[i].cells]],
              Len(t.rows))]

\* df[a] - df[b], df[a] * df[b], df[a].abs()
ColumnSub(t, a, b) == [i \in 1..Len(t.rows) |-> Sub(t.rows[i].cells[a], t.rows[i].cells[b])]

ColumnMul(t, a, b) == [i \in 1..Len(t.rows) |-> Mul(t.rows[i].cells[a], t.rows[i].cells[b])]

ColumnAbs(t, a) == [i \in 1..Len(t.rows) |-> AbsCell(t.rows[i].cells[a])]

\* Variants of DeriveDiffStock: Book - Phys, and the size of the difference.
DeriveDiffStockReversed(t) ==
    IF "Diff Stock" \notin t.columns
    THEN SetColumn(t, "Diff Stock", ColumnSub(t, "Book Stock", "Phys Stock"))
    ELSE t

DeriveDiffStockAbs(t) ==
    IF "Diff Stock" \notin t.columns
    THEN SetColumn(t, "Diff Stock",
                   ColumnAbs(SetColumn(t, "d", ColumnSub(t, "Phys Stock", "Book Stock")), "d"))
    ELSE t

DeriveDiffStock(t) ==
    IF "Diff Stock" \notin t.columns
    THEN SetColumn(t, "Diff Stock", ColumnSub(t, "Phys Stock", "Book Stock"))
    ELSE t

\* Variant of ValueColumn: every value column priced from Book Stock.
ValueColumnOfBook(t, name, qty) ==
    SetColumn(t, name, ColumnMul(t, "Book Stock", "Cost Price"))

ValueColumn(t, name, qty) ==
    SetColumn(t, name, ColumnMul(t, qty, "Cost Price"))

load_data(f) ==
    LET t0 == StripColumns(ReadExcel(f))
        t1 == DeriveDiffStock(t0)
        t2 == ValueColumn(t1, "Book Value", "Book Stock")
        t3 == ValueColumn(t2, "Phys Value", "Phys Stock")
    IN ValueColumn(t3, "Diff Value", "Diff Stock")

---------------------------------------------------------------------------
(* Filtering *)

\* df['Category'].unique()
categories(t) == {t.rows[i].cells["Category"] : i \in 1..Len(t.rows)}

\* the options of the selectbox: ["All"] + categories
Options(t) == {All} \cup categories(t)

\* t[t['Category'] == c]: the rows are kept under their index labels
MaskCategory(t, c) ==
    LET Keep(r) == PyEq(r.cells["Category"], c)
    IN [columns |-> t.columns, rows |-> SelectSeq(t.rows, Keep)]

\* Variant of DfCopy: filtered_df = df, without the copy.
DfAlias(heap, ref) == [heap |-> heap, ref |-> ref]

\* The objects of one run: "df" is the loaded table; df.copy() and the boolean
\* mask each make a new object, a column assignment changes one in place.
DfCopy(heap, ref) == [heap |-> ("copy" :> heap[ref]) @@ heap, ref |-> "copy"]

ApplyCategory(st, c) ==
    IF ~PyEq(c, All)
    THEN [heap |-> ("masked" :> MaskCategory(st.heap[st.ref], c)) @@ st.heap,
          ref |-> "masked"]
    ELSE st

\* filtered_df['Abs Diff'] = filtered_df['Diff Stock'].abs()
AssignAbsDiff(st) ==
    [heap |-> [st.heap EXCEPT ![st.ref] =
                    SetColumn(st.heap[st.ref], "Abs Diff", ColumnAbs(st.heap[st.ref], "Diff Stock"))],
     ref |-> st.ref]

---------------------------------------------------------------------------
(* Summary metrics *)

RECURSIVE SumRows(_, _, _)
SumRows(rows, col, i) ==
    IF i > Len(rows) THEN 0
    ELSE (IF IsNa(rows[i].cells[col]) THEN 0 ELSE rows[i].cells[col][1])
         + SumRows(rows, col, i + 1)

\* Series.sum(): missing cells are skipped, the sum of no cell is 0
Sum(t, col) == SumRows(t.rows, col, 1)

Abs(n) == IF n < 0 THEN 0 - n ELSE n

RECURSIVE Gcd(_, _)
Gcd(a, b) == IF b = 0 THEN a ELSE Gcd(b, a % b)

\* The quotient n / d as a fraction <<numerator, denominator>> in lowest terms
\* with a positive denominator; <<n, 0>> is the undefined quotient by zero.
Divide(n, d) ==
    IF d = 0 THEN <<n, 0>>
    ELSE LET g == Gcd(Abs(n), Abs(d))
             s == IF d < 0 THEN -1 ELSE 1
         IN <<(s * n) \div g, (s * d) \div g>>

Times(q, k) == IF q[2] = 0 THEN q ELSE Divide(q[1] * k, q[2])

\* Variant of StockVariancePct: the division without its guard.
StockVariancePctUnguarded(total_diff, total_book) ==
    Times(Divide(total_diff, total_book), 100)

StockVariancePct(total_diff, total_book) ==
    IF total_book # 0 THEN Times(Divide(total_diff, total_book), 100) ELSE <<0, 1>>

---------------------------------------------------------------------------
(* Rankings *)

Reverse(s) == [i \in 1..Len(s) |-> s[Len(s) + 1 - i]]

Max(S) == CHOOSE m \in S : \A x \in S : x <= m

\* What argsort(kind='quicksort') may do with rows of equal key: the default
\* kind is not a stable sort, so their relative order is not determined.
ArgsortOutcomes == {"in order", "reordered"}

TieOrder(group, outcome) == IF outcome = "in order" THEN group ELSE Reverse(group)

RECURSIVE DescendingGroups(_, _, _, _)
DescendingGroups(rows, col, keys, outcome) ==
    IF keys = {} THEN <<>>
    ELSE LET m == Max(keys)
             HasKey(r) == r.cells[col] = <<m>>
         IN TieOrder(SelectSeq(rows, HasKey), outcome)
            \o DescendingGroups(rows, col, keys \ {m}, outcome)

RECURSIVE AscendingGroups(_, _, _, _)
AscendingGroups(rows, col, keys, outcome) ==
    IF keys = {} THEN <<>>
    ELSE LET m == Max(keys)
             HasKey(r) == r.cells[col] = <<m>>
         IN AscendingGroups(rows, col, keys \ {m}, outcome)
            \o TieOrder(SelectSeq(rows, HasKey), outcome)

\* Variant of SortValuesDescending: ascending=True.
SortValuesAscending(t, col, outcome) ==
    LET Missing(r) == IsNa(r.cells[col])
        keys == {t.rows[i].cells[col][1] :
                    i \in {j \in 1..Len(t.rows) : ~IsNa(t.rows[j].cells[col])}}
    IN [columns |-> t.columns,
        rows |-> AscendingGroups(t.rows, col, keys, outcome)
                 \o SelectSeq(t.rows, Missing)]

\* t.sort_values(col, ascending=False): the rows that have a key by
\* non-increasing key, then the rows whose key is missing in their original
\* order (na_position='last').
SortValuesDescending(t, col, outcome) ==
    LET Missing(r) == IsNa(r.cells[col])
        keys == {t.rows[i].cells[col][1] :
                    i \in {j \in 1..Len(t.rows) : ~IsNa(t.rows[j].cells[col])}}
    IN [columns |-> t.columns,
        rows |-> DescendingGroups(t.rows, col, keys, outcome)
                 \o SelectSeq(t.rows, Missing)]

\* t.head(n)
HeadRows(t, n) ==
    [columns |-> t.columns,
     rows |-> SubSeq(t.rows, 1, IF Len(t.rows) < n THEN Len(t.rows) ELSE n)]

Index(t) == {t.rows[i].idx : i \in 1..Len(t.rows)}

\* Variant of Drop: the labels taken as row positions.
DropByPosition(t, labels) ==
    [columns |-> t.columns,
     rows |-> LET keep == {i \in 1..Len(t.rows) : (i - 1) \notin labels}
                  RECURSIVE Pick(_)
                  Pick(i) == IF i > Len(t.rows) THEN <<>>
                             ELSE (IF i \in keep THEN <<t.rows[i]>> ELSE <<>>) \o Pick(i + 1)
              IN Pick(1)]

\* t.drop(labels)
Drop(t, labels) ==
    LET Keep(r) == r.idx \notin labels
    IN [columns |-> t.columns, rows |-> SelectSeq(t.rows, Keep)]

\* t[cols]
Project(t, cols) ==
    [columns |-> cols,
     rows |-> Rows([i \in 1..Len(t.rows) |->
                [idx |-> t.rows[i].idx, cells |-> [c \in cols |-> t.rows[i].cells[c]]]],
              Len(t.rows))]

key_columns ==
    {"Category", "Item Name", "Item No", "Barcode", "Book Stock", "Phys Stock",
     "Diff Stock", "Book Value", "Phys Value", "Diff Value"}

\* The order of the category names (string comparison).
CategoryOrder == << <<"A">>, <<"All">>, <<"B">> >>

RECURSIVE ByCategory(_, _)
ByCategory(t, k) ==
    IF k > Len(CategoryOrder) THEN <<>>
    ELSE LET Is(r) == r.cells["Category"] = CategoryOrder[k]
         IN SortValuesDescending([columns |-> t.columns, rows |-> SelectSeq(t.rows, Is)],
                                 "Diff Stock", "in order").rows
            \o ByCategory(t, k + 1)

\* t.sort_values(['Category', 'Diff Stock'], ascending=[True, False]): a stable
\* sort on two keys, rows without a category last.
SortRemaining(t) ==
    LET NoCategory(r) == IsNa(r.cells["Category"])
    IN [columns |-> t.columns,
        rows |-> ByCategory(t, 1)
                 \o SortValuesDescending(
                        [columns |-> t.columns, rows |-> SelectSeq(t.rows, NoCategory)],
                        "Diff Stock", "in order").rows]

---------------------------------------------------------------------------
(* State *)

VARIABLES
    file,               \* stock_data.Xlsx
    quicksort,          \* how this build's argsort orders equal keys
    cache,              \* the table st.cache_data keeps for load_data()
    pc,                 \* "closed" until the page is opened, then "shown"
    selected_category,
    df,
    filtered_df,
    total_book_stock,
    total_phys_stock,
    total_diff_stock,
    total_book_value,
    total_phys_value,
    total_diff_value,
    stock_variance_pct,
    top_30_qty,
    top_30_value,
    remaining_df,
    remaining_view      \* the remaining items as displayed (line 197)

outputs ==
    <<filtered_df, total_book_stock, total_phys_stock, total_diff_stock,
      total_book_value, total_phys_value, total_diff_value, stock_variance_pct,
      top_30_qty, top_30_value, remaining_df, remaining_view>>

vars == <<file, quicksort, cache, pc, selected_category, df, outputs>>

Init ==
    /\ file \in Files
    /\ quicksort \in ArgsortOutcomes
    /\ cache = EmptyTable
    /\ pc = "closed"
    /\ selected_category = All
    /\ df = EmptyTable
    /\ filtered_df = EmptyTable
    /\ total_book_stock = 0
    /\ total_phys_stock = 0
    /\ total_diff_stock = 0
    /\ total_book_value = 0
    /\ total_phys_value = 0
    /\ total_diff_value = 0
    /\ stock_variance_pct = <<0, 1>>
    /\ top_30_qty = EmptyTable
    /\ top_30_value = EmptyTable
    /\ remaining_df = EmptyTable
    /\ remaining_view = EmptyTable

\* The objects of a run after lines 24-34 and line 90, load_data() having
\* returned t: the loaded table "df" and the filtered table st.ref.
Filtered(t, c) == AssignAbsDiff(ApplyCategory(DfCopy(("df" :> t), "df"), c))

\* The script from line 24 on, with load_data() returning t and c selected.
Script(t, c) ==
    /\ selected_category' = c
    /\ \E st \in {Filtered(t, c)} :
        /\ df' = st.heap["df"]
        /\ filtered_df' = st.heap[st.ref]
    /\ total_book_stock' = Sum(filtered_df', "Book Stock")
    /\ total_phys_stock' = Sum(filtered_df', "Phys Stock")
    /\ total_diff_stock' = Sum(filtered_df', "Diff Stock")
    /\ total_book_value' = Sum(filtered_df', "Book Value")
    /\ total_phys_value' = Sum(filtered_df', "Phys Value")
    /\ total_diff_value' = Sum(filtered_df', "Diff Value")
    /\ stock_variance_pct' = StockVariancePct(total_diff_stock', total_book_stock')
    /\ top_30_qty' = HeadRows(SortValuesDescending(filtered_df', "Abs Diff", quicksort), TopN)
    /\ top_30_value' = HeadRows(SortValuesDescending(filtered_df', "Diff Value", quicksort), TopN)
    /\ remaining_df' = Drop(filtered_df', Index(top_30_qty') \cup Index(top_30_value'))
    /\ remaining_view' =
            SortRemaining(Project(remaining_df', key_columns \cap top_30_qty'.columns))

\* The page is opened: load_data() runs and its result is cached; the
\* selectbox shows its first option, "All".
Open ==
    /\ pc = "closed"
    /\ pc' = "shown"
    /\ cache' = load_data(file)
    /\ Script(cache', All)
    /\ UNCHANGED <<file, quicksort>>

\* The user picks an option of the selectbox: the script runs again, and
\* load_data() returns a copy of the cached table.
SelectCategory(c) ==
    /\ pc = "shown"
    /\ c \in Options(df)
    /\ Script(cache, c)
    /\ UNCHANGED <<file, quicksort, cache, pc>>

Next ==
    \/ Open
    \/ \E c \in {All, <<"A">>, <<"B">>, NaN} : SelectCategory(c)

Spec == Init /\ [][Next]_vars

---------------------------------------------------------------------------
(* Properties *)

Shown == pc = "shown"

RowsOf(t) == {t.rows[i] : i \in 1..Len(t.rows)}

IndexSeq(rows) == [i \in 1..Len(rows) |-> rows[i].idx]

Min(a, b) == IF a < b THEN a ELSE b

RECURSIVE ColumnTotal(_, _)
ColumnTotal(rows, col) ==
    IF rows = <<>> THEN 0
    ELSE (IF Head(rows).cells[col] = NaN THEN 0 ELSE Head(rows).cells[col][1])
         + ColumnTotal(Tail(rows), col)

\* The two ranking metrics of a row.
AbsDiffStock(r) ==
    LET d == r.cells["Diff Stock"]
    IN IF d = NaN THEN NaN ELSE IF d[1] < 0 THEN <<0 - d[1]>> ELSE d

DiffValue(r) == r.cells["Diff Value"]

\* a ranks at least as high as b; a row without a metric ranks below all others.
RanksAtLeast(a, b) == b = NaN \/ (a # NaN /\ a[1] >= b[1])

IsTopListing(L, F, M(_)) ==
    /\ Len(L.rows) = Min(TopN, Len(F.rows))
    /\ RowsOf(L) \subseteq RowsOf(F)
    /\ \A i, j \in 1..Len(L.rows) : i < j => RanksAtLeast(M(L.rows[i]), M(L.rows[j]))
    /\ \A r \in RowsOf(F) : r.idx \notin Index(L) =>
            \A s \in RowsOf(L) : RanksAtLeast(M(s), M(r))

\* C1: each top-30 listing has min(30, n) rows of the filtered table, is ordered
\* by non-increasing metric (|Diff Stock| for the quantity listing, Diff Value
\* for the value listing), and no row left out ranks above a row in the listing.
C1_TopListings ==
    Shown => /\ IsTopListing(top_30_qty, filtered_df, AbsDiffStock)
             /\ IsTopListing(top_30_value, filtered_df, DiffValue)

\* More than 30 rows are filtered, and each listing holds a row from beyond the
\* first 30 rows of the sheet in place of an earlier one.
C1_Witness ==
    /\ Shown
    /\ Len(filtered_df.rows) > TopN
    /\ \E r \in RowsOf(top_30_qty) : r.idx >= TopN
    /\ \E r \in RowsOf(top_30_value) : r.idx >= TopN
    /\ \E r \in RowsOf(top_30_qty) : AbsDiffStock(r) # AbsDiffStock(top_30_qty.rows[1])

\* C2: the remaining items are exactly the filtered rows in neither listing:
\* the three tables cover the filtered set, the remainder shares no row with a
\* listing, and no table holds a row twice.
C2_Remainder ==
    Shown =>
        LET F == Index(filtered_df)
            Q == Index(top_30_qty)
            V == Index(top_30_value)
            R == Index(remaining_df)
        IN /\ R \cup Q \cup V = F
           /\ R \cap (Q \cup V) = {}
           /\ R = F \ (Q \cup V)
           /\ Cardinality(Q) = Len(top_30_qty.rows)
           /\ Cardinality(V) = Len(top_30_value.rows)
           /\ Cardinality(R) = Len(remaining_df.rows)
           /\ RowsOf(remaining_df) \subseteq RowsOf(filtered_df)
           /\ Index(remaining_view) = R
           /\ Len(remaining_view.rows) = Len(remaining_df.rows)

\* A category is selected, rows remain, and the listings overlap without being equal.
C2_Witness ==
    /\ Shown
    /\ selected_category # All
    /\ remaining_df.rows # <<>>
    /\ Index(top_30_qty) \cap Index(top_30_value) # {}
    /\ Index(top_30_qty) # Index(top_30_value)

DiffStockIsPhysMinusBook(t) ==
    \A r \in RowsOf(t) :
        LET b == r.cells["Book Stock"]
            q == r.cells["Phys Stock"]
            d == r.cells["Diff Stock"]
        IN IF b = NaN \/ q = NaN THEN d = NaN ELSE d = <<q[1] - b[1]>>

FileHasDiffStock == "Diff Stock" \in {Strip(c) : c \in file.columns}

\* C3 as stated: for every input file, Diff Stock = Phys Stock - Book Stock in
\* every row of the loaded table.
C3_EveryFile == Shown => DiffStockIsPhysMinusBook(cache)

\* C3 amended: when the input file has no Diff Stock column (its headers
\* stripped), Diff Stock = Phys Stock - Book Stock in every row of the loaded
\* table, missing where either stock is missing.
C3_DerivedDiffStock == Shown /\ ~FileHasDiffStock => DiffStockIsPhysMinusBook(cache)

\* Book 5, Phys 4 gives Diff Stock -1 and Book 5, Phys 6 gives 1.
C3_Witness ==
    /\ Shown
    /\ ~FileHasDiffStock
    /\ \E r \in RowsOf(cache) :
        r.cells["Book Stock"] = <<5>> /\ r.cells["Phys Stock"] = <<4>>
        /\ r.cells["Diff Stock"] = <<-1>>
    /\ \E r \in RowsOf(cache) :
        r.cells["Book Stock"] = <<5>> /\ r.cells["Phys Stock"] = <<6>>
        /\ r.cells["Diff Stock"] = <<1>>

IsProduct(v, q, c) == IF q = NaN \/ c = NaN THEN v = NaN ELSE v = <<q[1] * c[1]>>

\* C4: in every row of the loaded table each value is that row's quantity times
\* that row's Cost Price: Book Value from Book Stock, Phys Value from Phys Stock,
\* Diff Value from Diff Stock.
C4_Values ==
    Shown =>
        \A r \in RowsOf(cache) :
            /\ IsProduct(r.cells["Book Value"], r.cells["Book Stock"], r.cells["Cost Price"])
            /\ IsProduct(r.cells["Phys Value"], r.cells["Phys Stock"], r.cells["Cost Price"])
            /\ IsProduct(r.cells["Diff Value"], r.cells["Diff Stock"], r.cells["Cost Price"])

\* Cost 10 with Diff Stock -1 gives Diff Value -10, cost 20 with Diff Stock 1 gives 20.
C4_Witness ==
    /\ Shown
    /\ \E r \in RowsOf(cache) :
        r.cells["Cost Price"] = <<10>> /\ r.cells["Diff Stock"] = <<-1>>
        /\ r.cells["Diff Value"] = <<-10>> /\ r.cells["Book Value"] = <<50>>
        /\ r.cells["Phys Value"] = <<40>>
    /\ \E r \in RowsOf(cache) :
        r.cells["Cost Price"] = <<20>> /\ r.cells["Diff Stock"] = <<1>>
        /\ r.cells["Diff Value"] = <<20>>

\* C5: the Stock Variance % is 0 when the summed Book Stock of the filtered set
\* is 0 (the empty set included) and otherwise the defined quotient
\* summed Diff Stock / summed Book Stock times 100.
C5_StockVariancePct ==
    Shown =>
        LET book == ColumnTotal(filtered_df.rows, "Book Stock")
            diff == ColumnTotal(filtered_df.rows, "Diff Stock")
        IN /\ stock_variance_pct[2] > 0
           /\ book = 0 => stock_variance_pct = <<0, 1>>
           /\ book # 0 => stock_variance_pct[1] * book = diff * 100 * stock_variance_pct[2]

\* The filtered rows have a summed Book Stock of 0 and a summed Diff Stock other than 0.
C5_Witness ==
    /\ Shown
    /\ filtered_df.rows # <<>>
    /\ total_book_stock = 0
    /\ total_diff_stock # 0
    /\ stock_variance_pct = <<0, 1>>

FilterOnce(t, c) == IF c = All THEN t ELSE MaskCategory(t, c)

\* C6 as stated: with "All" selected the filtered set is every row of the loaded
\* table, otherwise it is exactly the rows whose Category is the selected option;
\* it is part of the loaded table, and filtering it again changes nothing.
C6_CategoryFilter ==
    Shown =>
        LET SameCategory(r) == r.cells["Category"] = selected_category
            expected == IF selected_category = All THEN df.rows
                        ELSE SelectSeq(df.rows, SameCategory)
        IN /\ IndexSeq(filtered_df.rows) = IndexSeq(expected)
           /\ RowsOf(Project(filtered_df, df.columns)) \subseteq RowsOf(df)
           /\ FilterOnce(filtered_df, selected_category) = filtered_df

\* C6 for the options that are category names.
C6_NamedCategories == Shown /\ selected_category # NaN => C6_CategoryFilter

TiesInInputOrder(L, F, M(_)) ==
    /\ \A i, j \in 1..Len(L.rows) :
            i < j /\ M(L.rows[i]) = M(L.rows[j]) => L.rows[i].idx < L.rows[j].idx
    /\ \A r \in RowsOf(F) : r.idx \notin Index(L) =>
            \A s \in RowsOf(L) : M(s) = M(r) => s.idx < r.idx

\* C7 as stated: in both listings rows of equal key keep their input order, and
\* at the cut-off the earlier of two such rows is the one retained.
C7_StableTies ==
    Shown => /\ TiesInInputOrder(top_30_qty, filtered_df, AbsDiffStock)
             /\ TiesInInputOrder(top_30_value, filtered_df, DiffValue)

\* C7 for a build whose argsort happens to keep equal keys in order.
C7_WhenInOrder == quicksort = "in order" => C7_StableTies

NumericColumns ==
    {"Book Stock", "Phys Stock", "Cost Price", "Diff Stock",
     "Book Value", "Phys Value", "Diff Value"}

\* C8 as stated: no cell of the stock, price and value columns of the loaded
\* table is missing.
C8_NoMissingCell ==
    Shown => \A r \in RowsOf(cache) : \A c \in NumericColumns : r.cells[c] # NaN

\* C9: a run leaves the loaded table as load_data returned it, without the
\* Abs Diff column that the filtered copy gets (also under "All"), it draws
\* the filtered rows from the loaded table alone, and running again with the
\* selection unchanged gives the same outputs.
C9_RunFrame ==
    [][pc' = "shown" =>
        /\ cache' = load_data(file)
        /\ df' = cache'
        /\ "Abs Diff" \notin df'.columns
        /\ "Abs Diff" \in filtered_df'.columns
        /\ filtered_df'.columns = df'.columns \cup {"Abs Diff"}
        /\ filtered_df' = Filtered(cache', selected_category').heap[
                            Filtered(cache', selected_category').ref]
        /\ pc = "shown" => cache' = cache
        /\ pc = "shown" /\ selected_category' = selected_category => outputs' = outputs]_vars

\* "All" is selected over a sheet with rows: the filtered copy has Abs Diff,
\* the loaded table does not.
C9_Witness ==
    /\ Shown
    /\ selected_category = All
    /\ df.rows # <<>>
    /\ "Abs Diff" \in filtered_df.columns
    /\ "Abs Diff" \notin df.columns

NoMissingCell(f) ==
    \A i \in 1..Len(f.rows) : \A c \in f.columns : f.rows[i][c] # NaN

\* C10: when the file has no Diff Stock column and no missing cell, the totals of
\* every selection agree: total Diff Stock = total Phys Stock - total Book Stock
\* and total Diff Value = total Phys Value - total Book Value.
C10_TotalsAgree ==
    Shown /\ ~FileHasDiffStock /\ NoMissingCell(file) =>
        /\ total_diff_stock = total_phys_stock - total_book_stock
        /\ total_diff_value = total_phys_value - total_book_value
        /\ total_phys_stock = ColumnTotal(filtered_df.rows, "Phys Stock")
        /\ total_book_stock = ColumnTotal(filtered_df.rows, "Book Stock")

\* A category is selected and its rows have gains and losses that do not cancel.
C10_Witness ==
    /\ Shown
    /\ ~FileHasDiffStock
    /\ NoMissingCell(file)
    /\ selected_category # All
    /\ \E r \in RowsOf(filtered_df) : r.cells["Diff Stock"][1] < 0
    /\ \E r \in RowsOf(filtered_df) : r.cells["Diff Stock"][1] > 0
    /\ total_diff_stock # 0
    /\ total_diff_value # 0

====
